---- MODULE Spec2Model ----
(***************************************************************************)
(* go-web: route registration (App.Use, Group.Use, Group.Route with        *)
(* Group.wrapHandler) and request dispatch through the composed            *)
(* middleware chain (LoggerMiddleware, RecoverMiddleware,                  *)
(* TimeoutMiddleware, user middlewares, the dispatch panic guard).         *)
(***************************************************************************)
EXTENDS Integers, Sequences, FiniteSets, TLC

\* ---------------------------------------------------------------- bounds
MaxChain == 2      \* longest middleware list of a served route
MaxAppMw == 4      \* longest App middleware list during registration (a full array of 4)
MaxGrpMw == 1      \* longest Group middleware list during registration
MaxRoutes == 2     \* routes registered during registration
MaxRegistered == 7 \* middlewares and routes registered in all, over the App and its groups
MaxWrites == 1     \* responses a user handler emits in one request

VARIABLES
  app,      \* App: [middlewares |-> slice]
  groups,   \* Group per id: [middlewares |-> slice]
  routes,   \* routes handed to the router, in registration order
  reqs,     \* requests dispatched so far (each with its Context and goroutines)
  alive     \* the serving process has not been terminated

vars == <<app, groups, routes, reqs, alive>>

\* ------------------------------------------------------------ value sets
\* Middleware values: the three built-ins and two user-written ones
\* (Panicker panics before calling next; Aborter calls c.Abort() and then next).
Kinds == {"Logger", "Recover", "Timeout", "Panicker", "Aborter"}

\* Terminal handlers (user-written HandlerFunc values):
\*   ok         c.Success(...) and return
\*   silent     return without writing
\*   panic      panic without writing
\*   writepanic c.Success(...) and then panic
\*   hang       never returns
\*   mustget    v := c.MustGet("k1"); c.Success(v)
Actions == {"ok", "silent", "panic", "writepanic", "hang", "mustget"}

\* Middleware values and handlers used while exploring registration.
RegKinds == {"Logger", "Recover"}
RegActions == {"ok"}

\* Groups created on the App (App.Group).
GroupIds == {1, 2}

\* Argument lists of one variadic Use call during registration.
UseArgs == {<<x>> : x \in RegKinds} \cup {<<x, y>> : x, y \in RegKinds}

SeqsUpTo(S, n) == UNION {[1..k -> S] : k \in 0..n}

\* ------------------------------------------------------------ Go slices
\* A slice is a backing array (arr, Len(arr) = cap) and a length.
Nil == "nil"

EmptySlice == [arr |-> <<>>, len |-> 0]

Elems(s) == SubSeq(s.arr, 1, s.len)

Cap(s) == Len(s.arr)

Pad(seq, n) == seq \o [i \in 1..(n - Len(seq)) |-> Nil]

\* runtime growslice for pointer-sized elements: double (or take the needed
\* length if larger), then round up to the allocator's size class.
SizeClassCap(n) == IF n <= 4 THEN n ELSE IF n % 2 = 0 THEN n ELSE n + 1

GrowCap(old, need) == SizeClassCap(IF need > 2 * old THEN need ELSE 2 * old)

\* append(s, xs...): in place when the capacity suffices, else a fresh array.
GoAppend(s, xs) ==
  LET need == s.len + Len(xs) IN
  IF Len(xs) = 0 THEN s
  ELSE IF need <= Cap(s)
    THEN [arr |-> [i \in 1..Cap(s) |->
                     IF i > s.len /\ i <= need THEN xs[i - s.len] ELSE s.arr[i]],
          len |-> need]
    ELSE [arr |-> Pad(Elems(s) \o xs, GrowCap(Cap(s), need)), len |-> need]

\* ------------------------------------------------------ Group.wrapHandler
\* The composed handler h = mw[1](mw[2](...mw[n](handler))) is represented by
\* the list of its layers, outermost first; wrapping h by m prepends m.
RECURSIVE WrapFrom(_, _, _)
WrapFrom(h, mws, i) ==
  IF i < 1 THEN h ELSE WrapFrom(<<mws[i]>> \o h, mws, i - 1)

\* for i := len(middlewares) - 1; i >= 0; i-- { h = middlewares[i](h) }
Compose(mws) == WrapFrom(<<>>, mws, Len(mws))

\* faulty variant: group middlewares first, application middlewares after them
CombineGroupFirst(a, g) == GoAppend(g, Elems(a))

\* faulty variant: append reads the parent's backing array as far as it is filled,
\* so elements another group's Route left past the parent's length stay in
CombineStale(a, g) ==
  GoAppend([arr |-> a.arr,
            len |-> Cardinality({i \in 1..Cap(a) : a.arr[i] # Nil})],
           Elems(g))

\* middlewares := append(g.parent.middlewares, g.middlewares...)
Combine(a, g) == GoAppend(a, Elems(g))

\* faulty variant: append writes one slot early, over the parent's last element
BackingShifted(s, xs) ==
  IF Len(xs) > 0 /\ s.len + Len(xs) <= Cap(s)
    THEN [i \in 1..Cap(s) |->
            IF i >= s.len /\ i < s.len + Len(xs) THEN xs[i - s.len + 1] ELSE s.arr[i]]
    ELSE s.arr

\* The backing array of s after append(s, xs...): written past s.len when the
\* capacity suffices, untouched when append allocates.
Backing(s, xs) ==
  IF Len(xs) > 0 /\ s.len + Len(xs) <= Cap(s)
    THEN [i \in 1..Cap(s) |->
            IF i > s.len /\ i <= s.len + Len(xs) THEN xs[i - s.len] ELSE s.arr[i]]
    ELSE s.arr

\* The registration-time part of wrapHandler: the combined list, the composed
\* handler, and the parent's backing array afterwards (append may have written
\* into its spare capacity; the parent's length is untouched).
WrapHandler(a, g, action) ==
  LET m == Combine(a, g) IN
  [mws    |-> Elems(m),
   h      |-> Compose(Elems(m)),
   action |-> action,
   parr   |-> Backing(a, Elems(g))]

\* faulty variant: the chain is looked up from the live lists at dispatch time
RouteChainLive(rt) == Compose(Elems(app.middlewares) \o Elems(groups[rt.group].middlewares))

\* The chain a registered route runs: the closure captured by the entry point.
RouteChain(rt) == rt.h

\* ----------------------------------------------------------- registration
\* What the router keeps for a route: the entry point's captured handler chain
\* and action (mws records the list wrapHandler composed).
RouteRec(g, w) == [group |-> g, mws |-> w.mws, h |-> w.h, action |-> w.action]

\* Middlewares and routes registered so far, over the App and its groups.
Registered ==
  app.middlewares.len + groups[1].middlewares.len + groups[2].middlewares.len
    + Len(routes)

\* func (a *App) Use(middleware ...Middleware)
AppUse(xs) ==
  /\ alive
  /\ Registered + Len(xs) <= MaxRegistered
  /\ app.middlewares.len + Len(xs) <= MaxAppMw
  /\ app' = [app EXCEPT !.middlewares = GoAppend(@, xs)]
  /\ UNCHANGED <<groups, routes, reqs, alive>>

\* func (g *Group) Use(middleware ...Middleware)
GroupUse(g, xs) ==
  /\ alive
  /\ Registered + Len(xs) <= MaxRegistered
  /\ groups[g].middlewares.len + Len(xs) <= MaxGrpMw
  /\ groups' = [groups EXCEPT ![g].middlewares = GoAppend(@, xs)]
  /\ UNCHANGED <<app, routes, reqs, alive>>

\* func (g *Group) Route(path, action, methods...)
GroupRoute(g, action) ==
  /\ alive
  /\ Registered < MaxRegistered
  /\ Len(routes) < MaxRoutes
  /\ LET w == WrapHandler(app.middlewares, groups[g].middlewares, action) IN
       /\ routes' = Append(routes, RouteRec(g, w))
       /\ app' = [app EXCEPT !.middlewares.arr = w.parr]
  /\ UNCHANGED <<groups, reqs, alive>>

\* State after New() and one App.Group call per group.
RegInit ==
  /\ app = [middlewares |-> EmptySlice]
  /\ groups = [g \in GroupIds |-> [middlewares |-> EmptySlice]]
  /\ routes = <<>>
  /\ reqs = <<>>
  /\ alive = TRUE

RegNext ==
  \/ \E xs \in UseArgs : AppUse(xs)
  \/ \E g \in GroupIds, xs \in UseArgs : GroupUse(g, xs)
  \/ \E g \in GroupIds, action \in RegActions : GroupRoute(g, action)

RegSpec == RegInit /\ [][RegNext]_vars

\* ------------------------------------------------------------- responses
StatusOK == 200
StatusRequestTimeout == 408
StatusInternalServerError == 500

\* One response emission (Context.JSON): status and the layer that wrote it
\* (0 = dispatch entry point, 1..n = middleware layer, n+1 = terminal handler).
Resp(status, by) == [status |-> status, by |-> by]

\* ------------------------------------------------------ the Context store
\* Keys and values user code passes to Set / Get / MustGet (a value may be nil).
Keys == {"k1", "k2"}

Vals == {"a", Nil}

\* store: make(map[string]interface{}) -- a function on the keys set so far
MakeStore == [k \in {} |-> Nil]

\* func (c *Context) Set(key, value): c.store[key] = value
Set(store, k, v) ==
  [x \in (DOMAIN store) \cup {k} |-> IF x = k THEN v ELSE store[x]]

\* func (c *Context) Get(key): val, exists := c.store[key]
Get(store, k) ==
  IF k \in DOMAIN store THEN <<store[k], TRUE>> ELSE <<Nil, FALSE>>

\* func (c *Context) MustGet(key): the value, or a panic when Get finds nothing
MustGet(store, k) ==
  LET r == Get(store, k)
  IN IF r[2] THEN [panics |-> FALSE, val |-> r[1]]
              ELSE [panics |-> TRUE, val |-> Nil]

\* faulty variant: the store is made once, when the route is registered, and
\* every Context of the route is handed the same map
ContextStoreShared(rs) == IF rs = <<>> THEN MakeStore ELSE rs[Len(rs)].store

\* The store of the Context the entry point builds for a request, with rs
\* the requests dispatched before it: a fresh map each time.
ContextStore(rs) == MakeStore

\* ------------------------------------------------- the response envelope
\* Values user code passes as data and meta (interface{}): nil, the empty
\* string, an ordinary value, and a value encoding/json rejects (a channel).
DataVals == {Nil, "", "d", "chan"}

MetaVals == {Nil, "meta"}

\* Format strings user code passes to Error and String, as sequences of
\* characters, and the argument lists that go with them: none, one plain
\* string, one string that reads like a directive.
Msgs ==
  {<<>>} \cup {<<x>> : x \in {"m", "%", "v"}}
         \cup {<<x, y>> : x, y \in {"m", "%", "v"}}

MsgArgs == {<<>>, << <<"m">> >>, << <<"%", "v">> >>}

\* Statuses user code passes to Error.
ErrStatuses == {StatusRequestTimeout, StatusInternalServerError}

\* fmt's text for arguments no directive consumed: %!(EXTRA string=a, string=b)
RECURSIVE ExtraArgs(_)
ExtraArgs(a) ==
  IF a = <<>> THEN <<")">>
  ELSE Head(a) \o (IF Tail(a) = <<>> THEN <<>> ELSE <<", string=">>) \o ExtraArgs(Tail(a))

\* fmt.Sprintf(format, args...) for string arguments, as the sequence of the
\* pieces of its output (characters, and fmt's error texts as one piece each):
\* a character that is no directive is copied, %% gives %, %v consumes an
\* argument and gives its characters, a directive with no argument left or
\* with an unknown verb gives fmt's error text, as do a trailing % and unused
\* arguments.
RECURSIVE Sprintf(_, _)
Sprintf(f, a) ==
  IF f = <<>> THEN (IF a = <<>> THEN <<>> ELSE <<"%!(EXTRA string=">> \o ExtraArgs(a))
  ELSE IF Head(f) # "%" THEN <<Head(f)>> \o Sprintf(Tail(f), a)
  ELSE IF Len(f) = 1 THEN <<"%!(NOVERB)">> \o Sprintf(<<>>, a)
  ELSE LET verb == f[2]
           rest == SubSeq(f, 3, Len(f))
       IN IF verb = "%" THEN <<"%">> \o Sprintf(rest, a)
          ELSE IF a = <<>>
            THEN <<IF verb = "v" THEN "%!v(MISSING)" ELSE "%!m(MISSING)">>
                 \o Sprintf(rest, a)
          ELSE IF verb = "v" THEN Head(a) \o Sprintf(rest, Tail(a))
          ELSE <<"%!m(string=">> \o Head(a) \o <<")">> \o Sprintf(rest, Tail(a))

\* type APIError struct { Code int; Message string }
APIError(code, message) == [code |-> code, message |-> message]

\* type Response struct: Error is a pointer, <<>> when nil, else <<APIError>>.
Response(success, data, err, meta) ==
  [Success |-> success, Data |-> data, Error |-> err, Meta |-> meta]

\* encoding/json refuses a channel anywhere in the value.
Encodable(resp) == resp.Data # "chan" /\ resp.Meta # "chan"

\* faulty variant: the struct tags lack omitempty, absent fields are emitted as null
EncodeNulls(resp) ==
  [f \in {"success", "data", "error", "meta"} |->
     CASE f = "success" -> resp.Success
       [] f = "data"    -> resp.Data
       [] f = "error"   -> IF resp.Error = <<>> THEN Nil ELSE resp.Error[1]
       [] f = "meta"    -> resp.Meta]

\* json.NewEncoder(w).Encode(response): the object written, as a function
\* from the field names present to their values; data, error and meta carry
\* omitempty and are left out when nil.
Encode(resp) ==
  [f \in {"success"}
            \cup (IF resp.Data # Nil THEN {"data"} ELSE {})
            \cup (IF resp.Error # <<>> THEN {"error"} ELSE {})
            \cup (IF resp.Meta # Nil THEN {"meta"} ELSE {}) |->
     CASE f = "success" -> resp.Success
       [] f = "data"    -> resp.Data
       [] f = "error"   -> resp.Error[1]
       [] f = "meta"    -> resp.Meta]

\* What reaches the writer when Encode fails: nothing.
NoBody == [f \in {} |-> Nil]

\* json.NewEncoder(c.Writer).Encode(v) for the envelope and for a value user
\* code hands to Context.JSON itself: whether it succeeds, and what it writes.
Marshal(resp) == [ok |-> Encodable(resp), body |-> Encode(resp)]

MarshalValue(v) == [ok |-> v # "chan", body |-> [value |-> v]]

\* Inputs of the other response methods: html text, redirect status and
\* location, and the paths handed to File (one names a file, one does not).
Htmls == {"h"}

RedirectStatuses == {302}

Locations == {"l"}

Files == {"f", "missing"}

FileExists(path) == path = "f"

\* ---------------------------------------------------------- one request
\* Layers of a request: 0 is the entry point returned by wrapHandler, 1..n the
\* composed middlewares (outermost first), n+1 the terminal handler.
\* A goroutine runs layers base.. on its own stack: pos is the layer it is in,
\* st its situation there:
\*   call    about to run layer pos          ret    the callee returned into pos
\*   panic   a panic raised in layer pos is unwinding
\*   derived TimeoutMiddleware at pos has derived its context (line 48)
\*   select  TimeoutMiddleware at pos is in its select
\*   hang    the handler never returns       exit / crash
\*   emit    layer pos is about to call a response method of the Context
\*   hdr     inside that call: the header is set (group.go:180)
\*   json    inside that call: WriteHeader is done (181), the body is being written
\* w holds the emission of a goroutine in emit, hdr or json: what it writes
\* and how the layer goes on when the call returns.
HandlerPos(q) == Len(q.chain) + 1

NewRequest(rt) ==
  LET c == RouteChain(rt)
      n == Len(c)
  IN [list      |-> rt.mws,
      chain     |-> c,
      action    |-> rt.action,
      gor       |-> << [base |-> 1, pos |-> 1, st |-> "call", w |-> <<>>] >>,
      ctx       |-> [t \in 0..n |-> IF t = 0 THEN "none" ELSE "unset"],
      done      |-> [t \in 1..n |-> FALSE],
      writes    |-> <<>>,
      log       |-> <<>>,
      aborted   |-> FALSE,
      store     |-> ContextStore(reqs),
      sent      |-> <<>>,
      torn      |-> FALSE,
      returned  |-> FALSE,
      \* history of the run, read by the properties only
      op        |-> <<>>,
      trace     |-> << <<>> >>,
      caught    |-> <<>>,
      first     |-> [t \in 1..n |-> "none"],
      abandoned |-> FALSE,   \* a TimeoutMiddleware left its select with next(c) not returned
      late      |-> FALSE]

Go(q, g, pos, st) == [q EXCEPT !.gor[g].pos = pos, !.gor[g].st = st]

Logged(q, level, p) == [q EXCEPT !.log = Append(@, <<level, p>>)]

\* The goroutine whose stack holds layer p: the one started nearest outside
\* it (the entry point, layer 0, is on the request's own).
Runner(q, p) ==
  LET S == {g \in DOMAIN q.gor : q.gor[g].base <= p \/ g = 1}
  IN CHOOSE g \in S : \A h \in S : h <= g

\* trace[g] is what goroutine g has done so far, in program order.
Traced(q, ev, p, what) ==
  [q EXCEPT !.trace[Runner(q, p)] = Append(@, <<ev, p, what>>)]

\* c.Writer.WriteHeader(status) of one emission, called in layer by: nothing
\* guards a second emission.
Written(q, status, by) == [q EXCEPT !.writes = Append(@, Resp(status, by))]

\* Situations of a goroutine that is inside an emission on c.Writer.
JsonSts == {"hdr", "json"}

\* Goroutine g enters an emission while another goroutine of the request is
\* inside one: two unsynchronised uses of one http.ResponseWriter.
Overlap(q, g) == \E h \in DOMAIN q.gor : h # g /\ q.gor[h].st \in JsonSts

\* What the build can do with an emission: alone on the writer it goes out
\* whole; overlapping another it goes out whole (one after the other), torn
\* (status and body of the two calls mixed), or the runtime stops the process
\* (fatal error: concurrent map writes, on the header map).
RaceOutcomes(q, g) ==
  IF Overlap(q, g) THEN {"whole", "torn", "fatal"} ELSE {"whole"}

\* A step that reads or mutates the Context after the entry point returned.
Touched(q) == [q EXCEPT !.late = @ \/ q.returned]

\* What a response method puts on the writer: the call that made it, the
\* status, the Content-Type, the body, and whether the encoder accepted the
\* value (Context.JSON logs an encoding failure and leaves the body empty).
\* func (c *Context) JSON(status, data)
JSON(status, enc, call) ==
  [call |-> call, status |-> status, ctype |-> "application/json",
   ok |-> enc.ok, body |-> IF enc.ok THEN enc.body ELSE NoBody]

\* func (c *Context) Success(data)
Success(data) ==
  JSON(StatusOK, Marshal(Response(TRUE, data, <<>>, Nil)), <<"Success", data>>)

\* func (c *Context) Error(status, message, args...)
Error(status, message, args) ==
  JSON(status,
       Marshal(Response(FALSE, Nil, <<APIError(status, Sprintf(message, args))>>, Nil)),
       <<"Error", status, message, args>>)

\* func (c *Context) WithMeta(data, meta)
WithMeta(data, meta) ==
  JSON(StatusOK, Marshal(Response(TRUE, data, <<>>, meta)), <<"WithMeta", data, meta>>)

\* The Content-Type the writer's header map holds: every emission sets one
\* (or keeps the one it finds), so it is that of the latest emission.
HeaderCT(q) == IF q.sent = <<>> THEN "" ELSE q.sent[Len(q.sent)].ctype

\* func (c *Context) String(status, format, values...): text/plain,
\* WriteHeader(status), fmt.Fprintf(c.Writer, format, values...)
String(status, format, values) ==
  [call |-> <<"String", status, format, values>>, status |-> status,
   ctype |-> "text/plain", ok |-> TRUE, body |-> [text |-> Sprintf(format, values)]]

\* func (c *Context) HTML(status, html): text/html, WriteHeader(status), Write(html)
HTML(status, html) ==
  [call |-> <<"HTML", status, html>>, status |-> status,
   ctype |-> "text/html", ok |-> TRUE, body |-> [html |-> html]]

\* func (c *Context) Redirect(status, location): http.Redirect sets Location
\* and calls WriteHeader(status); for a GET request with no Content-Type in
\* the header yet it sets text/html and writes a short link as body.
Redirect(q, status, location) ==
  [call |-> <<"Redirect", status, location>>, status |-> status,
   ctype |-> IF HeaderCT(q) = "" THEN "text/html; charset=utf-8" ELSE HeaderCT(q),
   ok |-> TRUE,
   body |-> IF HeaderCT(q) = "" THEN [location |-> location] ELSE NoBody]

\* func (c *Context) File(filepath): http.ServeFile writes the file with
\* status 200, keeping a Content-Type it finds in the header, or the text of
\* a 404 when there is no such file.
File(q, path) ==
  [call |-> <<"File", path>>,
   status |-> IF FileExists(path) THEN StatusOK ELSE 404,
   ctype |-> IF FileExists(path) /\ HeaderCT(q) # ""
               THEN HeaderCT(q) ELSE "text/plain; charset=utf-8",
   ok |-> TRUE,
   body |-> IF FileExists(path) THEN [file |-> path]
                                ELSE [text |-> <<"404 page not found">>]]

\* Layer p of goroutine g calls a response method: e is what the method
\* writes, then how the layer goes on when the call returns ("ret": it
\* returns to its caller; "panic": it panics; "call": it makes its next
\* call), ev the layer's exit as the run records it at that return.
Call(q, g, p, e, then, ev) ==
  [q EXCEPT !.gor[g] = [base |-> @.base, pos |-> p, st |-> "emit",
                        w |-> <<[e |-> e, by |-> p, then |-> then, ev |-> ev]>>]]

\* faulty variant: Abort flips the flag, a second call clears it
AbortToggle(q) == [q EXCEPT !.aborted = ~@]

\* func (c *Context) Abort(): c.aborted = true
Abort(q) == [q EXCEPT !.aborted = TRUE]

\* func (c *Context) IsAborted()
IsAborted(q) == q.aborted

\* The goroutine g of q is in middleware layer kind, in situation st.
At(q, g, st, kind) ==
  /\ q.gor[g].st = st
  /\ q.gor[g].pos \in 1..Len(q.chain)
  /\ q.gor[g].pos >= q.gor[g].base
  /\ q.chain[q.gor[g].pos] = kind

\* next(c) has returned on the goroutine that TimeoutMiddleware t started.
InnerFinished(q, t) ==
  \E g \in DOMAIN q.gor :
    /\ q.gor[g].base = t + 1
    /\ q.gor[g].pos = t
    /\ q.gor[g].st \in {"ret", "exit"}

\* context.Context of the request (layer 0) and of each TimeoutMiddleware t:
\* "unset" before it is derived, "none" while live, then "deadline" or
\* "canceled" (ctx.Err()).  A context that ends takes its live descendants
\* with it; every inner Timeout layer derives from the nearest outer one.
\* first[t] records which came first at layer t: the end of its context while
\* next(c) was still running ("deadline", "canceled"), close(done) while the
\* context was live ("done"), or the end of the context between the return of
\* next(c) and close(done) ("tie").
Propagate(q, t, err) ==
  [q EXCEPT
     !.ctx   = [u \in DOMAIN q.ctx |->
                  IF u >= t /\ q.ctx[u] = "none" THEN err ELSE q.ctx[u]],
     !.first = [u \in DOMAIN q.first |->
                  IF u >= t /\ q.ctx[u] = "none" /\ q.first[u] = "none"
                    THEN IF InnerFinished(q, u) THEN "tie" ELSE err
                    ELSE q.first[u]]]

ParentCtx(q, t) ==
  LET S == {u \in 1..(t - 1) : q.chain[u] = "Timeout"}
  IN IF S = {} THEN 0 ELSE CHOOSE u \in S : \A v \in S : v <= u

\* faulty variant: the panic runs past the nearer guards to the outermost one
CatcherOutermost(chain, base, p) ==
  LET S == {j \in base..(p - 1) : j <= Len(chain) /\ chain[j] = "Recover"}
  IN IF S = {} THEN 0 ELSE CHOOSE j \in S : \A k \in S : j <= k

\* The deferred recover() that stops a panic raised in layer p of a goroutine
\* whose stack starts at layer base: the nearest RecoverMiddleware below p on
\* that stack, 0 if there is none.
Catcher(chain, base, p) ==
  LET S == {j \in base..(p - 1) : j <= Len(chain) /\ chain[j] = "Recover"}
  IN IF S = {} THEN 0 ELSE CHOOSE j \in S : \A k \in S : k <= j

\* --------------------------------------------------------- the middlewares
Update(r, q) == reqs' = [reqs EXCEPT ![r] = q]

Running(r, g) ==
  /\ alive
  /\ r \in 1..Len(reqs)
  /\ g \in 1..Len(reqs[r].gor)

\* faulty variant: the composed handler consults the aborted flag and skips the
\* inner handler once it is set
CallNextUnlessAborted(q, g, p) ==
  IF q.aborted THEN Go(q, g, p, "ret") ELSE Go(q, g, p + 1, "call")

\* next(c) in the middleware at layer p: the inner handler composed by
\* wrapHandler is called, whatever the Context holds.
CallNext(q, g, p) == Go(q, g, p + 1, "call")

\* group.go:180, c.Writer.Header().Set(...): goroutine g enters the emission
\* it was about to make.
JSONEnter(r, g) ==
  /\ Running(r, g)
  /\ reqs[r].gor[g].st = "emit"
  /\ LET q == Touched(reqs[r])
         p == q.gor[g].pos
     IN \E o \in RaceOutcomes(q, g) :
          /\ Update(r, CASE o = "whole" -> Go(q, g, p, "hdr")
                         [] o = "torn"  -> [Go(q, g, p, "hdr") EXCEPT !.torn = TRUE]
                         [] o = "fatal" -> Go(q, g, p, "crash"))
          /\ alive' = (o # "fatal")
  /\ UNCHANGED <<app, groups, routes>>

\* group.go:181, c.Writer.WriteHeader(status)
JSONWriteHeader(r, g) ==
  /\ Running(r, g)
  /\ reqs[r].gor[g].st = "hdr"
  /\ LET q == Touched(reqs[r])
         w == q.gor[g].w[1]
     IN Update(r, Go(Written(q, w.e.status, w.by), g, q.gor[g].pos, "json"))
  /\ UNCHANGED <<app, groups, routes, alive>>

\* group.go:183-186: the body is written (an encoding failure is logged), the
\* call returns and the layer goes on: it returns to its caller (the entry
\* point to the transport), panics, or makes its next call.
JSONReturn(r, g) ==
  /\ Running(r, g)
  /\ reqs[r].gor[g].st = "json"
  /\ LET q0 == Touched(reqs[r])
         p  == q0.gor[g].pos
         w  == q0.gor[g].w[1]
         q1 == [q0 EXCEPT !.sent = Append(@, w.e), !.gor[g].w = <<>>]
         q2 == IF w.e.ok THEN q1 ELSE Logged(q1, "error", w.by)
         q  == IF w.ev = <<>> THEN q2
               ELSE Traced(q2, w.ev[1][1], w.ev[1][2], w.ev[1][3])
     IN Update(r, CASE w.then = "panic" -> Go(q, g, p, "panic")
                    [] w.then = "call"  -> Go(q, g, p, "call")
                    [] w.then = "ret" /\ p = 0 ->
                         [Go(q, g, 0, "exit") EXCEPT !.returned = TRUE]
                    [] OTHER -> Go(q, g, p - 1, "ret"))
  /\ UNCHANGED <<app, groups, routes, alive>>

\* LoggerMiddleware: c.LogRequest(); next(c)
LoggerPre(r, g) ==
  /\ Running(r, g)
  /\ At(reqs[r], g, "call", "Logger")
  /\ LET q == reqs[r]
         p == q.gor[g].pos
     IN Update(r, Touched(CallNext(Traced(Logged(q, "info", p), "pre", p, "Logger"),
                                   g, p)))
  /\ UNCHANGED <<app, groups, routes, alive>>

\* faulty variant: the completion line is left out once an error response was written
LoggerPostUnlessError(r, g) ==
  /\ Running(r, g)
  /\ At(reqs[r], g, "ret", "Logger")
  /\ LET q  == reqs[r]
         p  == q.gor[g].pos
         q1 == IF \E i \in DOMAIN q.writes : q.writes[i].status # StatusOK
                 THEN q ELSE Logged(q, "debug", p)
     IN Update(r, Touched(Go(Traced(q1, "post", p, "Logger"), g, p - 1, "ret")))
  /\ UNCHANGED <<app, groups, routes, alive>>

\* LoggerMiddleware after next(c): c.Logger().Debug("Completed in %v", ...)
LoggerPost(r, g) ==
  /\ Running(r, g)
  /\ At(reqs[r], g, "ret", "Logger")
  /\ LET q == reqs[r]
         p == q.gor[g].pos
     IN Update(r, Touched(Go(Traced(Logged(q, "debug", p), "post", p, "Logger"),
                             g, p - 1, "ret")))
  /\ UNCHANGED <<app, groups, routes, alive>>

\* RecoverMiddleware: defer func() {...}(); next(c)
RecoverPre(r, g) ==
  /\ Running(r, g)
  /\ At(reqs[r], g, "call", "Recover")
  /\ LET q == reqs[r]
         p == q.gor[g].pos
     IN Update(r, CallNext(Traced(q, "pre", p, "Recover"), g, p))
  /\ UNCHANGED <<app, groups, routes, alive>>

\* RecoverMiddleware, next(c) returned: recover() yields nil
RecoverPost(r, g) ==
  /\ Running(r, g)
  /\ At(reqs[r], g, "ret", "Recover")
  /\ LET q == reqs[r]
         p == q.gor[g].pos
     IN Update(r, Go(Traced(q, "post", p, "Recover"), g, p - 1, "ret"))
  /\ UNCHANGED <<app, groups, routes, alive>>

\* RecoverMiddleware's deferred function with r != nil: the panic is logged
\* (part_000:35) and c.Error(500, "Internal Server Error") is about to be
\* called (36), after which the middleware returns normally to its caller.
Recovered(q, g, j) ==
  Touched(Call([Traced(Logged(q, "error", j), "catch", j, "Recover")
                  EXCEPT !.caught = Append(@, j)],
               g, j, Error(StatusInternalServerError, <<"Internal Server Error">>, <<>>),
               "ret", <<>>))

RecoverCatch(r, g) ==
  /\ Running(r, g)
  /\ reqs[r].gor[g].st = "panic"
  /\ LET q == reqs[r]
         j == Catcher(q.chain, q.gor[g].base, q.gor[g].pos)
     IN /\ j >= 1
        /\ Update(r, Recovered(q, g, j))
  /\ UNCHANGED <<app, groups, routes, alive>>

\* faulty variant: the guard logs the panic and writes no response
GuardedQuiet(q, g) ==
  [Go(Traced(Logged(q, "error", 0), "catch", 0, "entry"), g, 0, "exit")
     EXCEPT !.caught = Append(@, 0), !.returned = TRUE]

\* The entry point's deferred guard (wrapHandler): the panic is logged
\* (group.go:84) and ctx.Error(500, "Internal Server Error") is about to be
\* called (85), after which the entry point returns normally to the transport.
Guarded(q, g) ==
  Call([Traced(Logged(q, "error", 0), "catch", 0, "entry")
          EXCEPT !.caught = Append(@, 0)],
       g, 0, Error(StatusInternalServerError, <<"Internal Server Error">>, <<>>),
       "ret", <<>>)

SafetyNet(r, g) ==
  /\ Running(r, g)
  /\ reqs[r].gor[g].st = "panic"
  /\ reqs[r].gor[g].base = 1
  /\ Catcher(reqs[r].chain, 1, reqs[r].gor[g].pos) = 0
  /\ Update(r, Guarded(reqs[r], g))
  /\ UNCHANGED <<app, groups, routes, alive>>

\* A panic that unwinds a goroutine started by TimeoutMiddleware to its top:
\* no deferred recover is on that stack, the runtime terminates the process.
Crash(r, g) ==
  /\ Running(r, g)
  /\ reqs[r].gor[g].st = "panic"
  /\ reqs[r].gor[g].base > 1
  /\ Catcher(reqs[r].chain, reqs[r].gor[g].base, reqs[r].gor[g].pos) = 0
  /\ Update(r, Go(reqs[r], g, reqs[r].gor[g].base - 1, "crash"))
  /\ alive' = FALSE
  /\ UNCHANGED <<app, groups, routes>>

\* A user middleware that panics before calling next.
PanickerPre(r, g) ==
  /\ Running(r, g)
  /\ At(reqs[r], g, "call", "Panicker")
  /\ LET q == reqs[r]
         p == q.gor[g].pos
     IN Update(r, Go(Traced(q, "pre", p, "Panicker"), g, p, "panic"))
  /\ UNCHANGED <<app, groups, routes, alive>>

\* A user middleware that calls c.Abort() and then next(c).
AborterPre(r, g) ==
  /\ Running(r, g)
  /\ At(reqs[r], g, "call", "Aborter")
  /\ LET q == reqs[r]
         p == q.gor[g].pos
     IN Update(r, Touched(CallNext(Abort(Traced(q, "pre", p, "Aborter")), g, p)))
  /\ UNCHANGED <<app, groups, routes, alive>>

AborterPost(r, g) ==
  /\ Running(r, g)
  /\ At(reqs[r], g, "ret", "Aborter")
  /\ LET q == reqs[r]
         p == q.gor[g].pos
     IN Update(r, Go(Traced(q, "post", p, "Aborter"), g, p - 1, "ret"))
  /\ UNCHANGED <<app, groups, routes, alive>>

\* TimeoutMiddleware, line 48: ctx, cancel := context.WithTimeout(
\* c.Request.Context(), timeout).  The derived context starts in the state of
\* its parent and its timer runs from here on.
TimeoutPre(r, g) ==
  /\ Running(r, g)
  /\ At(reqs[r], g, "call", "Timeout")
  /\ LET q   == reqs[r]
         p   == q.gor[g].pos
         par == q.ctx[ParentCtx(q, p)]
         q1  == [Traced(q, "pre", p, "Timeout") EXCEPT
                   !.ctx[p]   = par,
                   !.first[p] = par]
     IN Update(r, Touched(Go(q1, g, p, "derived")))
  /\ UNCHANGED <<app, groups, routes, alive>>

\* TimeoutMiddleware, lines 51-59: c.Request = c.Request.WithContext(ctx),
\* then next(c) is started on its own goroutine and the middleware waits in
\* its select.
TimeoutStart(r, g) ==
  /\ Running(r, g)
  /\ At(reqs[r], g, "derived", "Timeout")
  /\ LET q  == reqs[r]
         p  == q.gor[g].pos
         q1 == [q EXCEPT
                  !.gor = Append([@ EXCEPT ![g].st = "select"],
                                 [base |-> p + 1, pos |-> p + 1, st |-> "call",
                                  w |-> <<>>]),
                  !.trace = Append(@, <<>>)]
     IN Update(r, Touched(q1))
  /\ UNCHANGED <<app, groups, routes, alive>>

\* The cases of the select that can proceed: <-done once done is closed,
\* <-ctx.Done() once the derived context has ended.
SelectCases(q, p) ==
  {b \in {"done", "ctx"} :
     \/ b = "done" /\ q.done[p]
     \/ b = "ctx" /\ q.ctx[p] # "none"}

\* case <-done: return (the deferred cancel() ends the derived context)
TimeoutDone(r, g) ==
  /\ Running(r, g)
  /\ At(reqs[r], g, "select", "Timeout")
  /\ LET q == reqs[r]
         p == q.gor[g].pos
     IN /\ "done" \in SelectCases(q, p)
        /\ Update(r, Go(Traced(Propagate(q, p, "canceled"), "post", p, "Timeout"),
                        g, p - 1, "ret"))
  /\ UNCHANGED <<app, groups, routes, alive>>

\* faulty variant: the ctx.Done() branch writes the 408 without looking at ctx.Err()
TimeoutExpiredAlways(r, g) ==
  /\ Running(r, g)
  /\ At(reqs[r], g, "select", "Timeout")
  /\ LET q  == reqs[r]
         p  == q.gor[g].pos
         q1 == [q EXCEPT !.abandoned = @ \/ ~InnerFinished(q, p)]
     IN /\ "ctx" \in SelectCases(q, p)
        /\ Update(r, Call(q1, g, p,
                          Error(StatusRequestTimeout, <<"Request timeout">>, <<>>),
                          "ret", << <<"post", p, "Timeout">> >>))
  /\ UNCHANGED <<app, groups, routes, alive>>

\* case <-ctx.Done(): if ctx.Err() is DeadlineExceeded, c.Error(408, "Request
\* timeout") is about to be called; then return
TimeoutExpired(r, g) ==
  /\ Running(r, g)
  /\ At(reqs[r], g, "select", "Timeout")
  /\ LET q  == reqs[r]
         p  == q.gor[g].pos
         q1 == [q EXCEPT !.abandoned = @ \/ ~InnerFinished(q, p)]
     IN /\ "ctx" \in SelectCases(q, p)
        /\ Update(r, IF q.ctx[p] = "deadline"
                       THEN Call(q1, g, p,
                                 Error(StatusRequestTimeout, <<"Request timeout">>, <<>>),
                                 "ret", << <<"post", p, "Timeout">> >>)
                       ELSE Go(Traced(q1, "post", p, "Timeout"), g, p - 1, "ret"))
  /\ UNCHANGED <<app, groups, routes, alive>>

\* The goroutine started by TimeoutMiddleware at layer t: next(c) returned,
\* close(done).
CloseDone(r, g) ==
  /\ Running(r, g)
  /\ g > 1
  /\ reqs[r].gor[g].st = "ret"
  /\ reqs[r].gor[g].pos = reqs[r].gor[g].base - 1
  /\ LET q == reqs[r]
         t == q.gor[g].pos
     IN Update(r, Go([q EXCEPT !.done[t] = TRUE,
                               !.first[t] = IF @ = "none" THEN "done" ELSE @],
                     g, t, "exit"))
  /\ UNCHANGED <<app, groups, routes, alive>>

\* The timer of the context derived at layer t fires.
DeadlineFire(r, t) ==
  /\ alive
  /\ r \in 1..Len(reqs)
  /\ t \in 1..Len(reqs[r].chain)
  /\ reqs[r].ctx[t] = "none"
  /\ Update(r, Propagate(reqs[r], t, "deadline"))
  /\ UNCHANGED <<app, groups, routes, alive>>

\* The transport cancels the request's own context (client gone, or the
\* entry point returned).
ParentCancel(r) ==
  /\ alive
  /\ r \in 1..Len(reqs)
  /\ reqs[r].ctx[0] = "none"
  /\ Update(r, Propagate(reqs[r], 0, "canceled"))
  /\ UNCHANGED <<app, groups, routes, alive>>

\* The terminal handler.
Handler(r, g) ==
  /\ Running(r, g)
  /\ reqs[r].gor[g].st = "call"
  /\ reqs[r].gor[g].pos = HandlerPos(reqs[r])
  /\ LET q  == reqs[r]
         p  == q.gor[g].pos
         q1 == Traced(q, "H", p, q.action)
     IN Update(r, CASE q.action = "ok" -> Call(q1, g, p, Success("d"), "ret", <<>>)
                    [] q.action = "silent" -> Go(q1, g, p - 1, "ret")
                    [] q.action = "panic" -> Go(q1, g, p, "panic")
                    [] q.action = "writepanic" ->
                         Call(q1, g, p, Success("d"), "panic", <<>>)
                    [] q.action = "hang" -> Go(q1, g, p, "hang")
                    [] q.action = "mustget" ->
                         IF MustGet(q.store, "k1").panics
                           THEN Touched(Go([q1 EXCEPT !.op = <<"MustGet", "k1", "panic">>],
                                           g, p, "panic"))
                           ELSE Touched(Call([q1 EXCEPT !.op =
                                                <<"MustGet", "k1", MustGet(q.store, "k1").val>>],
                                             g, p, Success(MustGet(q.store, "k1").val),
                                             "ret", <<>>)))
  /\ UNCHANGED <<app, groups, routes, alive>>

\* h(ctx) returned to the entry point, which returns to the transport.
EntryReturn(r) ==
  /\ Running(r, 1)
  /\ reqs[r].gor[1].st = "ret"
  /\ reqs[r].gor[1].pos = 0
  /\ Update(r, [Go(reqs[r], 1, 0, "exit") EXCEPT !.returned = TRUE])
  /\ UNCHANGED <<app, groups, routes, alive>>

\* The transport hands a request to route i's entry point, which builds the
\* Context and calls h(ctx).  A behaviour follows one request to the end of
\* all its goroutines.
Dispatch(i) ==
  /\ alive
  /\ i \in 1..Len(routes)
  /\ reqs = <<>>
  /\ reqs' = Append(reqs, NewRequest(routes[i]))
  /\ UNCHANGED <<app, groups, routes, alive>>

\* ------------------------------------------------------------ serving
\* An App with one route registered: App.Use of the first half of a list,
\* Group.Use of the rest on group 1, then Group.Route.
Init ==
  \E c \in SeqsUpTo(Kinds, MaxChain), action \in Actions :
    LET k  == Len(c) \div 2
        a  == GoAppend(EmptySlice, SubSeq(c, 1, k))
        g1 == GoAppend(EmptySlice, SubSeq(c, k + 1, Len(c)))
        w  == WrapHandler(a, g1, action)
    IN /\ app = [middlewares |-> [arr |-> w.parr, len |-> a.len]]
       /\ groups = [g \in GroupIds |->
                      [middlewares |-> IF g = 1 THEN g1 ELSE EmptySlice]]
       /\ routes = <<RouteRec(1, w)>>
       /\ reqs = <<>>
       /\ alive = TRUE

GoStep(r, g) ==
  \/ LoggerPre(r, g)
  \/ LoggerPost(r, g)
  \/ RecoverPre(r, g)
  \/ RecoverPost(r, g)
  \/ RecoverCatch(r, g)
  \/ SafetyNet(r, g)
  \/ Crash(r, g)
  \/ PanickerPre(r, g)
  \/ AborterPre(r, g)
  \/ AborterPost(r, g)
  \/ TimeoutPre(r, g)
  \/ TimeoutStart(r, g)
  \/ TimeoutDone(r, g)
  \/ TimeoutExpired(r, g)
  \/ CloseDone(r, g)
  \/ Handler(r, g)
  \/ JSONEnter(r, g)
  \/ JSONWriteHeader(r, g)
  \/ JSONReturn(r, g)

ReqIds == {1}

GorIds == 1..(MaxChain + 1)

Next ==
  \/ \E i \in 1..MaxRoutes : Dispatch(i)
  \/ \E r \in ReqIds, g \in GorIds : GoStep(r, g)
  \/ \E r \in ReqIds : EntryReturn(r)
  \/ \E r \in ReqIds, t \in 1..MaxChain : DeadlineFire(r, t)
  \/ \E r \in ReqIds : ParentCancel(r)

Spec == Init /\ [][Next]_vars

\* ------------------------------------------- user code on the Context
\* A handler written by the application: any sequence of calls on its Context,
\* then a return (or the panic of MustGet).
InHandler(r, g) ==
  /\ Running(r, g)
  /\ reqs[r].action = "script"
  /\ reqs[r].gor[g].st = "call"
  /\ reqs[r].gor[g].pos = HandlerPos(reqs[r])

\* c.Set(k, v)
HandlerSet(r, g, k, v) ==
  /\ InHandler(r, g)
  /\ Update(r, Touched([reqs[r] EXCEPT !.store = Set(@, k, v),
                                        !.op = <<"Set", k, v>>]))
  /\ UNCHANGED <<app, groups, routes, alive>>

\* val, ok := c.Get(k)
HandlerGet(r, g, k) ==
  /\ InHandler(r, g)
  /\ Update(r, Touched([reqs[r] EXCEPT !.op = <<"Get", k>> \o Get(reqs[r].store, k)]))
  /\ UNCHANGED <<app, groups, routes, alive>>

\* val := c.MustGet(k)
HandlerMustGet(r, g, k) ==
  /\ InHandler(r, g)
  /\ LET q == reqs[r]
         p == q.gor[g].pos
         m == MustGet(q.store, k)
     IN Update(r, Touched(
          IF m.panics
            THEN Go(Traced([q EXCEPT !.op = <<"MustGet", k, "panic">>], "H", p, q.action),
                    g, p, "panic")
            ELSE [q EXCEPT !.op = <<"MustGet", k, m.val>>]))
  /\ UNCHANGED <<app, groups, routes, alive>>

\* the handler returns to the layer that called it
HandlerReturn(r, g) ==
  /\ InHandler(r, g)
  /\ LET q == reqs[r]
         p == q.gor[g].pos
     IN Update(r, Go(Traced(q, "H", p, q.action), g, p - 1, "ret"))
  /\ UNCHANGED <<app, groups, routes, alive>>

\* c.Abort()
HandlerAbort(r, g) ==
  /\ InHandler(r, g)
  /\ Update(r, Touched([Abort(reqs[r]) EXCEPT !.op = <<"Abort">>]))
  /\ UNCHANGED <<app, groups, routes, alive>>

\* c.IsAborted()
HandlerIsAborted(r, g) ==
  /\ InHandler(r, g)
  /\ Update(r, Touched([reqs[r] EXCEPT !.op = <<"IsAborted", IsAborted(reqs[r])>>]))
  /\ UNCHANGED <<app, groups, routes, alive>>

\* A call of the handler that writes the response: e is what the called
\* method writes.
HandlerEmit(r, g, e, op) ==
  /\ InHandler(r, g)
  /\ Len(reqs[r].sent) < MaxWrites
  /\ Update(r, Call([reqs[r] EXCEPT !.op = <<op>>], g, reqs[r].gor[g].pos,
                    e, "call", <<>>))
  /\ UNCHANGED <<app, groups, routes, alive>>

\* c.Success(data)
HandlerSuccess(r, g, data) == HandlerEmit(r, g, Success(data), "Success")

\* c.Error(status, message, args...)
HandlerError(r, g, status, message, args) ==
  HandlerEmit(r, g, Error(status, message, args), "Error")

\* c.WithMeta(data, meta)
HandlerWithMeta(r, g, data, meta) ==
  HandlerEmit(r, g, WithMeta(data, meta), "WithMeta")

\* c.JSON(status, v)
HandlerJSON(r, g, status, v) ==
  HandlerEmit(r, g, JSON(status, MarshalValue(v), <<"JSON", status, v>>), "JSON")

\* c.String(status, format, values...)
HandlerString(r, g, status, format, values) ==
  HandlerEmit(r, g, String(status, format, values), "String")

\* c.HTML(status, html)
HandlerHTML(r, g, status, html) == HandlerEmit(r, g, HTML(status, html), "HTML")

\* c.Redirect(status, location)
HandlerRedirect(r, g, status, location) ==
  HandlerEmit(r, g, Redirect(reqs[r], status, location), "Redirect")

\* c.File(filepath)
HandlerFile(r, g, path) == HandlerEmit(r, g, File(reqs[r], path), "File")

\* Requests the transport serves at the same time, each on its own goroutine.
CtxIds == {1, 2}

\* The transport hands a request to route i's entry point while others are
\* still being served.
DispatchConcurrent(i) ==
  /\ alive
  /\ i \in 1..Len(routes)
  /\ Len(reqs) < Cardinality(CtxIds)
  /\ reqs' = Append(reqs, NewRequest(routes[i]))
  /\ UNCHANGED <<app, groups, routes, alive>>

\* Chains of the route whose handler works on the store.
StoreChains == {<<>>, <<"Recover">>}

\* An App with one route: App.Use of the chain, then Route on group 1.
StoreInit ==
  \E c \in StoreChains :
    LET a == GoAppend(EmptySlice, c)
        w == WrapHandler(a, EmptySlice, "script")
    IN /\ app = [middlewares |-> [arr |-> w.parr, len |-> a.len]]
       /\ groups = [g \in GroupIds |-> [middlewares |-> EmptySlice]]
       /\ routes = <<RouteRec(1, w)>>
       /\ reqs = <<>>
       /\ alive = TRUE

StoreNext ==
  \/ DispatchConcurrent(1)
  \/ \E r \in CtxIds :
       \/ RecoverPre(r, 1)
       \/ RecoverPost(r, 1)
       \/ RecoverCatch(r, 1)
       \/ SafetyNet(r, 1)
       \/ \E k \in Keys, v \in Vals : HandlerSet(r, 1, k, v)
       \/ \E k \in Keys : HandlerGet(r, 1, k)
       \/ \E k \in Keys : HandlerMustGet(r, 1, k)
       \/ HandlerReturn(r, 1)
       \/ JSONEnter(r, 1)
       \/ JSONWriteHeader(r, 1)
       \/ JSONReturn(r, 1)
       \/ EntryReturn(r)

StoreSpec == StoreInit /\ [][StoreNext]_vars

\* An App with one route and no middleware, its handler working on the
\* Context: flag, store and responses.
CtxInit ==
  LET w == WrapHandler(EmptySlice, EmptySlice, "script")
  IN /\ app = [middlewares |-> EmptySlice]
     /\ groups = [g \in GroupIds |-> [middlewares |-> EmptySlice]]
     /\ routes = <<RouteRec(1, w)>>
     /\ reqs = <<>>
     /\ alive = TRUE

CtxNext ==
  \/ Dispatch(1)
  \/ \E k \in Keys, v \in Vals : HandlerSet(1, 1, k, v)
  \/ \E k \in Keys : HandlerGet(1, 1, k)
  \/ HandlerAbort(1, 1)
  \/ HandlerIsAborted(1, 1)
  \/ HandlerSuccess(1, 1, "d")
  \/ HandlerError(1, 1, StatusInternalServerError, <<"m">>, <<>>)
  \/ HandlerJSON(1, 1, StatusOK, "d")
  \/ HandlerString(1, 1, StatusOK, <<"m">>, <<>>)
  \/ HandlerHTML(1, 1, StatusOK, "h")
  \/ HandlerRedirect(1, 1, 302, "l")
  \/ HandlerFile(1, 1, "f")
  \/ JSONEnter(1, 1)
  \/ JSONWriteHeader(1, 1)
  \/ JSONReturn(1, 1)
  \/ HandlerReturn(1, 1)
  \/ EntryReturn(1)

CtxSpec == CtxInit /\ [][CtxNext]_vars

\* The same App, its handler emitting responses: every data, meta, status,
\* message and argument list above.
EnvNext ==
  \/ Dispatch(1)
  \/ \E d \in DataVals : HandlerSuccess(1, 1, d)
  \/ \E st \in ErrStatuses, m \in Msgs, a \in MsgArgs : HandlerError(1, 1, st, m, a)
  \/ \E d \in DataVals, m \in MetaVals : HandlerWithMeta(1, 1, d, m)
  \/ \E st \in {StatusOK} \cup ErrStatuses, d \in DataVals : HandlerJSON(1, 1, st, d)
  \/ \E m \in Msgs, a \in MsgArgs : HandlerString(1, 1, StatusOK, m, a)
  \/ \E h \in Htmls : HandlerHTML(1, 1, StatusOK, h)
  \/ \E st \in RedirectStatuses, l \in Locations : HandlerRedirect(1, 1, st, l)
  \/ \E f \in Files : HandlerFile(1, 1, f)
  \/ JSONEnter(1, 1)
  \/ JSONWriteHeader(1, 1)
  \/ JSONReturn(1, 1)
  \/ HandlerReturn(1, 1)
  \/ EntryReturn(1)

EnvSpec == CtxInit /\ [][EnvNext]_vars

\* ================================================================ claims
Requests == {reqs[r] : r \in DOMAIN reqs}

IsPrefix(s, t) == Len(s) <= Len(t) /\ SubSeq(t, 1, Len(s)) = s

HasKind(chain, kind) == \E i \in 1..Len(chain) : chain[i] = kind

\* The run of goroutine g and of the goroutines started under it, as one
\* sequence: a TimeoutMiddleware starts its goroutine right after its
\* pre-logic, and the goroutine that started it invokes nothing more.  It is
\* the order in which the events happened as long as every TimeoutMiddleware
\* waited for its goroutine, and the order of the invocations in every run.
RECURSIVE RunFrom(_, _, _)
RunFrom(q, g, i) ==
  IF i > Len(q.trace[g]) THEN <<>>
  ELSE LET e == q.trace[g][i]
       IN <<e>>
          \o (IF e[1] = "pre" /\ e[3] = "Timeout" /\ g + 1 \in DOMAIN q.trace
                THEN RunFrom(q, g + 1, 1) ELSE <<>>)
          \o RunFrom(q, g, i + 1)

Run(q) == RunFrom(q, 1, 1)

\* The strictly nested run of list [m1..mk] around handler H: every pre-logic
\* in list order, H once, every post-logic in reverse order.
NestedRun(list, action) ==
  LET k == Len(list) IN
    [i \in 1..k |-> <<"pre", i, list[i]>>]
    \o << <<"H", k + 1, action>> >>
    \o [i \in 1..k |-> <<"post", k + 1 - i, list[k + 1 - i]>>]

\* The handler of q panics when it runs: by itself, or in MustGet on a key
\* its Context does not hold.
HandlerPanics(q) ==
  \/ q.action \in {"panic", "writepanic"}
  \/ q.action = "mustget" /\ MustGet(q.store, "k1").panics

PanicFree(q) ==
  /\ ~HandlerPanics(q)
  /\ ~HasKind(q.list, "Panicker")

\* C1 (as claimed): for every middleware list [m0..mk] and handler H composed
\* by wrapHandler, with nothing panicking, a run of the composed handler is
\* m0's pre-logic, ..., mk's pre-logic, H exactly once, mk's post-logic, ...,
\* m0's post-logic: no middleware goes on to its post-logic while its inner
\* handler has not returned, the run so far is always a prefix of the nested
\* run, and it is the whole of it once the entry point has returned.
C1_StrictNesting ==
  \A q \in Requests :
    PanicFree(q) =>
      /\ ~q.abandoned
      /\ IsPrefix(Run(q), NestedRun(q.list, q.action))
      /\ q.returned => Run(q) = NestedRun(q.list, q.action)

\* C2: at every Group.Route call the chain wrapped around the new route is the
\* App's middleware list followed by the group's list, as they are at that
\* call (application middlewares outermost), whichever routes were registered
\* before.
C2_AppThenGroup ==
  [][Len(routes') > Len(routes) =>
       LET rt == routes'[Len(routes')] IN
         RouteChain(rt) =
           Elems(app.middlewares) \o Elems(groups[rt.group].middlewares)]_vars

\* C2 witness: two routes of one group, registered with different chains, the
\* later one made of a non-empty App part and a non-empty group part.
C2_Witness ==
  /\ Len(routes) = 2
  /\ routes[1].group = routes[2].group
  /\ routes[1].h # routes[2].h
  /\ app.middlewares.len > 0
  /\ groups[routes[2].group].middlewares.len > 0
  /\ routes[2].h = Elems(app.middlewares)
                     \o Elems(groups[routes[2].group].middlewares)
  /\ routes[2].h[1] # routes[2].h[Len(routes[2].h)]

\* C3: the chain of a registered route is a snapshot: no later App.Use,
\* Group.Use or Group.Route changes the chain that route runs.
C3_Snapshot ==
  [][\A i \in 1..Len(routes) :
       RouteChain(routes[i])' = RouteChain(routes[i])]_vars

\* C3 witness: a route whose chain differs from what the lists hold now, both
\* the App's and its group's list having grown since it was registered.
C3_Witness ==
  \E i \in 1..Len(routes) :
    /\ Len(routes[i].h) < app.middlewares.len
    /\ groups[routes[i].group].middlewares.len > 0
    /\ routes[i].h # Compose(Elems(app.middlewares)
                              \o Elems(groups[routes[i].group].middlewares))

\* C4 (as claimed): no panic raised while serving a request terminates the
\* serving process, whatever the middleware configuration.
C4_ProcessSurvives == alive

\* No goroutine of the request is on its way into or inside an emission.
NoEmission(q) == \A g \in DOMAIN q.gor : q.gor[g].st \notin {"emit", "hdr", "json"}

\* C5 (as claimed): a panic under RecoverMiddleware is intercepted once, at the
\* Recovery layer, which writes the one 500; the dispatch guard writes nothing;
\* and if the handler wrote nothing, that 500 is the only response of the
\* request (read with no emission in progress).
C5_OneResponse ==
  \A q \in Requests :
    (q.caught # <<>> /\ q.caught[1] >= 1 /\ NoEmission(q)) =>
      LET j == q.caught[1] IN
        /\ q.caught = <<j>>
        /\ Resp(StatusInternalServerError, j) \in {q.writes[i] : i \in DOMAIN q.writes}
        /\ \A i \in DOMAIN q.writes : q.writes[i].by # 0
        /\ (\A i \in DOMAIN q.writes : q.writes[i].by # HandlerPos(q))
             => q.writes = <<Resp(StatusInternalServerError, j)>>

\* C6: with no RecoverMiddleware in the chain, a panic unwinding the entry
\* point's goroutine is stopped by the entry point's guard and by nothing else:
\* the guard logs it, writes a 500 envelope, and the entry point returns
\* normally to the transport with the process still serving.
C6_SafetyNet ==
  [][\A r \in DOMAIN reqs :
       LET g1 == reqs[r].gor[1]
           g2 == reqs'[r].gor[1]
       IN /\ (g1.st = "panic" /\ ~HasKind(reqs[r].chain, "Recover") /\ g2 # g1)
             => /\ reqs'[r].caught = Append(reqs[r].caught, 0)
                /\ reqs'[r].log = Append(reqs[r].log, <<"error", 0>>)
                /\ g2.pos = 0 /\ g2.st = "emit"
                /\ g2.w[1].e.status = StatusInternalServerError
                /\ g2.w[1].e.body = [success |-> FALSE,
                                     error |-> [code |-> StatusInternalServerError,
                                                message |-> <<"Internal Server Error">>]]
                /\ alive'
          /\ (g1.pos = 0 /\ g1.st = "emit" /\ g2 # g1)
             => g2.st = "hdr" /\ ~reqs'[r].torn /\ alive'
          /\ (g1.pos = 0 /\ g1.st = "hdr" /\ g2 # g1)
             => /\ reqs'[r].writes =
                     Append(reqs[r].writes, Resp(StatusInternalServerError, 0))
                /\ g2.st = "json"
          /\ (g1.pos = 0 /\ g1.st = "json" /\ g2 # g1)
             => /\ reqs'[r].writes = reqs[r].writes
                /\ reqs'[r].sent = Append(reqs[r].sent, g1.w[1].e)
                /\ g2.st = "exit"
                /\ reqs'[r].returned
                /\ alive']_vars

\* C6 witness: a panic crossed a middleware layer and was turned into a 500 by
\* the guard of a chain without Recovery.
C6_Witness ==
  \E q \in Requests :
    /\ ~HasKind(q.chain, "Recover")
    /\ Len(q.chain) > 0
    /\ q.caught = <<0>>
    /\ q.returned
    /\ q.writes = <<Resp(StatusInternalServerError, 0)>>

TimeoutReturned(q, t) == \E i \in DOMAIN Run(q) : Run(q)[i] = <<"post", t, "Timeout">>

Wrote(q, status, by) == \E i \in DOMAIN q.writes : q.writes[i] = Resp(status, by)

\* C7 (as claimed): whenever the deadline of a TimeoutMiddleware elapsed before
\* its inner handler finished (next(c) had not returned), the middleware, once
\* it has returned, has written a 408.
C7_DeadlineGives408 ==
  \A q \in Requests : \A t \in DOMAIN q.first :
    (q.first[t] = "deadline" /\ TimeoutReturned(q, t))
      => Wrote(q, StatusRequestTimeout, t)

\* C8 (as claimed): once a TimeoutMiddleware has written its 408, nothing more
\* is written to the request's writer.
C8_NothingAfter408 ==
  \A q \in Requests : \A i \in DOMAIN q.writes :
    q.writes[i].status = StatusRequestTimeout => i = Len(q.writes)

\* C9 (as claimed): when the inner handler of a TimeoutMiddleware finished
\* before the deadline (done was closed while the context was live), that
\* middleware writes no 408, in every interleaving.
C9_InTimeNo408 ==
  \A q \in Requests : \A t \in DOMAIN q.first :
    q.first[t] = "done" => ~Wrote(q, StatusRequestTimeout, t)

\* C10 (as claimed): once the entry point has returned, no code reads or
\* mutates the request's Context.
C10_NoUseAfterReturn ==
  \A q \in Requests : ~q.late

Range(s) == {s[i] : i \in DOMAIN s}

\* C19: groups sharing one App are isolated.  Lists only grow, so the chain of
\* every registered route of group g is an earlier state of the App's list
\* followed by an earlier state of g's own list: a prefix of the App's list
\* followed by a prefix of g's list, and nothing else, in particular no
\* middleware that only another group registered, although wrapHandler appends
\* onto the App's own slice and leaves that group's middlewares in its
\* backing array.
C19_GroupsIsolated ==
  \A i \in 1..Len(routes) :
    LET A == Elems(app.middlewares)
        G == Elems(groups[routes[i].group].middlewares)
        c == RouteChain(routes[i])
    IN \E k \in 0..Len(G) :
         /\ k <= Len(c)
         /\ Len(c) - k <= Len(A)
         /\ c = SubSeq(A, 1, Len(c) - k) \o SubSeq(G, 1, k)

\* C19 witness: group 2 registered a middleware that neither the App nor group
\* 1 has; its Route left that middleware in the App's backing array, past the
\* App's length; the route group 1 registered afterwards holds the App's list only.
C19_Witness ==
  /\ Len(routes) = 2
  /\ routes[1].group = 2
  /\ routes[2].group = 1
  /\ LET A  == Elems(app.middlewares)
         G1 == Elems(groups[1].middlewares)
         G2 == Elems(groups[2].middlewares)
     IN /\ \E x \in Range(G2) : x \notin Range(A) \cup Range(G1)
        /\ Cap(app.middlewares) > Len(A)
        /\ app.middlewares.arr[Len(A) + 1] \in Range(G2) \ Range(A)
        /\ Len(A) > 0
        /\ routes[1].h = A \o G2
        /\ routes[2].h = A \o G1

\* C20: Group.Route is read-only on the middleware lists: a Route step leaves
\* the App's list (its length and every element) and every group's list as
\* they were, so the list a later App.Use extends is the list the Use calls
\* built: the App's list after a Use is its list before, followed by the
\* arguments of that call.
C20_RouteReadOnly ==
  [][/\ (Len(routes') > Len(routes)) =>
          (/\ app'.middlewares.len = app.middlewares.len
           /\ Elems(app'.middlewares) = Elems(app.middlewares)
           /\ groups' = groups)
     /\ (app'.middlewares.len > app.middlewares.len) =>
          (\E xs \in UseArgs :
             Elems(app'.middlewares) = Elems(app.middlewares) \o xs)]_vars

\* C20 witness: the App's slice had three elements in an array of four when a
\* group holding one middleware registered a route, so wrapHandler's append
\* wrote that middleware into the App's spare slot; a later App.Use put its
\* own argument, a different middleware, into the same slot.  The route keeps
\* the chain it was composed with and the App's list is what Use built.  (The
\* array of four is still the App's, so the Route's append did not allocate:
\* from an array of three the Use would have moved the list to a new array of six.)
C20_Witness ==
  \E i \in 1..Len(routes) :
    LET h == routes[i].h
        G == Elems(groups[routes[i].group].middlewares)
    IN /\ app.middlewares.len = 4
       /\ Cap(app.middlewares) = 4
       /\ Len(G) = 1
       /\ h = SubSeq(app.middlewares.arr, 1, 3) \o G
       /\ app.middlewares.arr[4] # G[1]

\* C18: under TimeoutMiddleware, when the context it derived was cancelled
\* through its parent (not by its own deadline) while the inner handler has
\* not finished, the step the middleware takes is to return at once, writing
\* no 408 and no other response and leaving every other goroutine of the
\* request as it is; and every 408 a TimeoutMiddleware has written was written
\* with its context ended by deadline expiry.
C18_CancelNo408 ==
  [][\A r \in DOMAIN reqs :
       /\ \A g \in DOMAIN reqs[r].gor :
            (/\ At(reqs[r], g, "select", "Timeout")
             /\ reqs[r].ctx[reqs[r].gor[g].pos] = "canceled"
             /\ ~reqs[r].done[reqs[r].gor[g].pos]
             /\ reqs'[r].gor[g] # reqs[r].gor[g])
            => (/\ reqs'[r].writes = reqs[r].writes
                /\ reqs'[r].gor[g].pos = reqs[r].gor[g].pos - 1
                /\ reqs'[r].gor[g].st = "ret"
                /\ DOMAIN reqs'[r].gor = DOMAIN reqs[r].gor
                /\ \A g2 \in DOMAIN reqs[r].gor :
                     g2 # g => reqs'[r].gor[g2] = reqs[r].gor[g2])
       /\ \A i \in DOMAIN reqs'[r].writes :
            reqs'[r].writes[i].status = StatusRequestTimeout
              => reqs'[r].ctx[reqs'[r].writes[i].by] = "deadline"]_vars

\* C18 witness: the request's context was cancelled while the handler under a
\* TimeoutMiddleware was still running; the middleware and the entry point
\* returned with nothing written and the handler's goroutine left behind.
C18_Witness ==
  \E q \in Requests : \E t \in DOMAIN q.first :
    /\ q.chain[t] = "Timeout"
    /\ q.ctx[0] = "canceled"
    /\ q.first[t] = "canceled"
    /\ TimeoutReturned(q, t)
    /\ ~q.done[t]
    /\ q.returned
    /\ q.writes = <<>>
    /\ \E g \in DOMAIN q.gor : q.gor[g].base = t + 1 /\ q.gor[g].st \in {"call", "hang"}

\* The position at which a request's chain raises a panic: its first user
\* middleware that panics, else the handler if it panics, else 0.
RaisePos(q) ==
  LET S == {p \in 1..Len(q.list) : q.list[p] = "Panicker"}
  IN IF S # {} THEN CHOOSE p \in S : \A u \in S : p <= u
     ELSE IF HandlerPanics(q) THEN HandlerPos(q)
     ELSE 0

\* Layer i runs on the request's own call stack: no TimeoutMiddleware outside it.
OnRequestStack(q, i) == \A p \in 1..(i - 1) : q.list[p] # "Timeout"

NearestRecovery(list, i) ==
  LET S == {j \in 1..(i - 1) : list[j] = "Recover"}
  IN IF S = {} THEN 0 ELSE CHOOSE j \in S : \A k \in S : k <= j

\* The run of a chain that raises at position i with the catching guard at j:
\* pre-logic of layers 1..i-1, the raise, the catch at j, then the post-logic
\* of layers j-1..1 and of no other layer.
UnwoundRun(q) ==
  LET i == RaisePos(q)
      j == NearestRecovery(q.list, i)
  IN [k \in 1..(i - 1) |-> <<"pre", k, q.list[k]>>]
     \o << IF i = HandlerPos(q) THEN <<"H", i, q.action>>
                                ELSE <<"pre", i, "Panicker">> >>
     \o << IF j = 0 THEN <<"catch", 0, "entry">> ELSE <<"catch", j, "Recover">> >>
     \o [k \in 1..(j - 1) |-> <<"post", j - k, q.list[j - k]>>]

\* C16: a panic raised at chain position i on the request's call stack (in a
\* middleware's own logic or in the handler) is caught by the nearest
\* RecoverMiddleware at a position j < i, never by one at a position > i, and
\* by the entry point's guard if there is none; the post-logic of the layers
\* j..i is skipped and the post-logic of the layers outside j runs in nesting
\* order: the run is always a prefix of pre(1)..pre(i-1), raise(i), catch(j),
\* post(j-1)..post(1), the whole of it once the entry point has returned, and
\* the panic is caught once.
C16_NearestOuterRecovery ==
  \A q \in Requests :
    (RaisePos(q) > 0 /\ OnRequestStack(q, RaisePos(q))) =>
      /\ IsPrefix(Run(q), UnwoundRun(q))
      /\ q.returned => Run(q) = UnwoundRun(q)
      /\ q.caught \in {<<>>, <<NearestRecovery(q.list, RaisePos(q))>>}

\* C16 witness: a handler's panic passed a LoggerMiddleware, whose post-logic
\* was skipped, or was caught under one, whose post-logic then ran; the request
\* ended with the panic caught by the RecoverMiddleware outside the handler.
C16_Witness ==
  \E q \in Requests :
    /\ Len(q.list) = 2
    /\ HasKind(q.list, "Recover") /\ HasKind(q.list, "Logger")
    /\ RaisePos(q) = HandlerPos(q)
    /\ q.returned
    /\ q.caught = <<NearestRecovery(q.list, HandlerPos(q))>>
    /\ Run(q) = UnwoundRun(q)

\* The invocations of a run, in the order they happened: each layer's entry
\* and the terminal handler's.
Invocations(q) == SelectSeq(Run(q), LAMBDA e : e[1] \in {"pre", "H"})

InvokeOrder(q) ==
  [k \in 1..Len(q.list) |-> <<"pre", k, q.list[k]>>]
  \o << <<"H", HandlerPos(q), q.action>> >>

\* C17: Abort is advisory.  In a request whose flag was set by a layer that
\* went on to call its inner handler, with nothing panicking, the layers are
\* still invoked in nesting order, none skipped: the invocations so far are a
\* prefix of layer 1, ..., layer n, handler, and all of them once every
\* goroutine of the request has finished; neither the composed chain nor
\* Logging, Recovery or Timeout consult the flag.
C17_AbortAdvisory ==
  \A q \in Requests :
    (q.aborted /\ PanicFree(q)) =>
      /\ IsPrefix(Invocations(q), InvokeOrder(q))
      /\ (\A g \in DOMAIN q.gor : q.gor[g].st = "exit")
           => Invocations(q) = InvokeOrder(q)

\* C17 witness: the outermost layer called Abort and then next; the built-in
\* middleware inside it and the handler still ran, and the handler's 200 was
\* written.
C17_Witness ==
  \E q \in Requests :
    /\ Len(q.list) = 2
    /\ q.list[1] = "Aborter"
    /\ q.list[2] \in {"Logger", "Recover", "Timeout"}
    /\ q.aborted
    /\ q.returned
    /\ \A g \in DOMAIN q.gor : q.gor[g].st = "exit"
    /\ Invocations(q) = InvokeOrder(q)
    /\ Wrote(q, StatusOK, HandlerPos(q))

LogHas(q, level, p) == \E i \in DOMAIN q.log : q.log[i] = <<level, p>>

\* Control has entered the LoggerMiddleware at layer p and has left it again,
\* by a return or by a panic passing through (layer p runs on the goroutine
\* started by the nearest TimeoutMiddleware outside it, else on the request's).
LeftLogger(q, p) ==
  /\ \E i \in DOMAIN Run(q) : Run(q)[i] = <<"pre", p, "Logger">>
  /\ \E g \in DOMAIN q.gor : q.gor[g].base = ParentCtx(q, p) + 1 /\ q.gor[g].pos < p

\* C14 (as claimed): every request that enters a LoggerMiddleware gets the
\* request-received line before the inner handler and the elapsed-duration
\* debug line after it, on every path out of the middleware.
C14_AlwaysBothLines ==
  \A q \in Requests : \A p \in 1..Len(q.list) :
    (q.list[p] = "Logger" /\ LeftLogger(q, p)) =>
      LogHas(q, "info", p) /\ LogHas(q, "debug", p)

\* C14 (amended): LoggerMiddleware logs the request-received line and only
\* then invokes the inner handler, for every request that enters it; when the
\* inner handler returns to it, it logs the elapsed-duration debug line and
\* returns, whatever response was written meanwhile; when the inner handler
\* panics, the panic passes through and no debug line is logged for that layer.
C14_LinesAroundReturn ==
  [][\A r \in DOMAIN reqs : \A g \in DOMAIN reqs[r].gor :
       LET q == reqs[r]
           p == q.gor[g].pos
       IN /\ (At(q, g, "call", "Logger") /\ reqs'[r].gor[g] # q.gor[g])
               => (/\ reqs'[r].log = Append(q.log, <<"info", p>>)
                   /\ reqs'[r].gor[g].pos = p + 1
                   /\ reqs'[r].gor[g].st = "call")
          /\ (At(q, g, "ret", "Logger") /\ reqs'[r].gor[g] # q.gor[g])
               => (/\ reqs'[r].log = Append(q.log, <<"debug", p>>)
                   /\ reqs'[r].gor[g].pos = p - 1
                   /\ reqs'[r].gor[g].st = "ret")
          /\ (q.gor[g].st = "panic" /\ reqs'[r].gor[g] # q.gor[g])
               => \A i \in DOMAIN reqs'[r].log :
                    (i > Len(q.log)) => reqs'[r].log[i][1] # "debug"]_vars

\* C14 witness: under a LoggerMiddleware the handler panicked and a Recovery
\* inside the Logger wrote the 500; the Logger logged its request-received
\* line first and its debug line after the error response.
C14_Witness ==
  \E q \in Requests :
    /\ q.list = <<"Logger", "Recover">>
    /\ q.writes = <<Resp(StatusInternalServerError, 2)>>
    /\ q.log = << <<"info", 1>>, <<"error", 2>>, <<"debug", 1>> >>
    /\ q.returned

\* C11: Get(k) on a request's Context returns (v, true) with v the value of
\* the most recent Set(k, v) on that Context and (nil, false) if k was never
\* set on it, with requests in flight side by side: a Context starts with
\* every key absent; a Set(k, v) makes Get(k) on that Context return (v, true);
\* no other step changes what Get returns for any key of any Context, so no
\* request observes another's Set; and what a Get or MustGet call returned is
\* what the store held.
C11_StorePerRequest ==
  [][\A r \in DOMAIN reqs' : \A k \in Keys :
       LET q2 == reqs'[r] IN
         /\ Get(q2.store, k) =
              IF r \notin DOMAIN reqs THEN <<Nil, FALSE>>
              ELSE IF q2.op # <<>> /\ q2.op[1] = "Set" /\ q2.op[2] = k
                THEN <<q2.op[3], TRUE>>
                ELSE Get(reqs[r].store, k)
         /\ (q2.op # <<>> /\ q2.op[1] = "Get" /\ q2.op[2] = k)
              => <<q2.op[3], q2.op[4]>> = Get(q2.store, k)
         /\ (q2.op # <<>> /\ q2.op[1] = "MustGet" /\ q2.op[2] = k)
              => IF Get(q2.store, k)[2] THEN q2.op[3] = Get(q2.store, k)[1]
                                        ELSE q2.op[3] = "panic"]_vars

\* C11 witness: two requests in their handlers at the same time; the first
\* has set k1 to a value and k2 to nil, and the second, with nothing set,
\* asked for k1 and was told (nil, false).
C11_Witness ==
  /\ Len(reqs) = 2
  /\ \A r \in 1..2 : reqs[r].gor[1].st = "call" /\ reqs[r].gor[1].pos = HandlerPos(reqs[r])
  /\ Get(reqs[1].store, "k1") = <<"a", TRUE>>
  /\ Get(reqs[1].store, "k2") = <<Nil, TRUE>>
  /\ reqs[2].op = <<"Get", "k1", Nil, FALSE>>
  /\ reqs[2].store = MakeStore

\* C12 (as claimed): a MustGet on a missing key panics, and with a
\* RecoverMiddleware anywhere outside the caller in the chain, once the panic
\* has run its course the process is serving and the 500 envelope has been
\* written by that Recovery layer, not by the entry point's guard.
C12_MustGetRecovered ==
  \A q \in Requests :
    (/\ q.op # <<>> /\ q.op[1] = "MustGet" /\ q.op[3] = "panic"
     /\ HasKind(q.chain, "Recover")
     /\ \A g \in DOMAIN q.gor : q.gor[g].st # "panic"
     /\ NoEmission(q))
    => /\ alive
       /\ \E j \in 1..Len(q.chain) :
            /\ q.chain[j] = "Recover"
            /\ q.caught = <<j>>
            /\ Wrote(q, StatusInternalServerError, j)
       /\ ~Wrote(q, StatusInternalServerError, 0)

\* C13: the aborted flag is one-way: IsAborted is false on a fresh Context,
\* true after an Abort, and once true it stays true across every later step
\* on that Context (Set, Get, IsAborted, response emission, further Abort
\* calls, the handler's return); nothing but an Abort makes it true.
C13_AbortedOneWay ==
  [][\A r \in DOMAIN reqs' :
       IF r \notin DOMAIN reqs THEN ~IsAborted(reqs'[r])
       ELSE /\ IsAborted(reqs[r]) => IsAborted(reqs'[r])
            /\ reqs'[r].op = <<"Abort">> => IsAborted(reqs'[r])
            /\ (~IsAborted(reqs[r]) /\ IsAborted(reqs'[r]))
                 => reqs'[r].op = <<"Abort">>]_vars

\* C13 witness: a request that was aborted, has set a key and emitted a
\* response, and whose handler then read IsAborted as true and returned.
C13_Witness ==
  \E q \in Requests :
    /\ q.op = <<"IsAborted", TRUE>>
    /\ IsAborted(q)
    /\ Len(q.sent) > 0
    /\ Get(q.store, "k1")[2]
    /\ q.returned

Emissions == UNION {{q.sent[i] : i \in DOMAIN q.sent} : q \in Requests}

\* Field f of body b is present and holds v.
Holds(b, f, v) == f \in DOMAIN b /\ b[f] = v

\* Field f holds v, or is absent when v is nil.
HoldsUnlessNil(b, f, v) == IF v = Nil THEN f \notin DOMAIN b ELSE Holds(b, f, v)

\* C15 (as claimed): for data the JSON encoder accepts, Success(data) writes
\* status 200 with success=true and data (absent when nil) and no error or
\* meta field; Error(status, msg) writes status with success=false and
\* error={code: status, message: msg} and no data or meta field;
\* WithMeta(data, meta) writes success=true with data and meta (each absent
\* when nil) and no error field.
C15_UniformEnvelope ==
  \A e \in Emissions :
    LET c == e.call
        b == e.body
    IN CASE c[1] = "Success" ->
              c[2] # "chan" =>
                /\ e.status = StatusOK
                /\ Holds(b, "success", TRUE)
                /\ HoldsUnlessNil(b, "data", c[2])
                /\ DOMAIN b \subseteq {"success", "data"}
         [] c[1] = "Error" ->
              c[4] = <<>> =>
                /\ e.status = c[2]
                /\ Holds(b, "success", FALSE)
                /\ Holds(b, "error", [code |-> c[2], message |-> c[3]])
                /\ DOMAIN b = {"success", "error"}
         [] c[1] = "WithMeta" ->
              c[2] # "chan" =>
                /\ Holds(b, "success", TRUE)
                /\ HoldsUnlessNil(b, "data", c[2])
                /\ HoldsUnlessNil(b, "meta", c[3])
                /\ DOMAIN b \subseteq {"success", "data", "meta"}
         [] OTHER -> TRUE

NoDirective(msg) == \A i \in DOMAIN msg : msg[i] # "%"

\* C15 (amended): Success(data) writes status 200 with success=true and data
\* (absent when nil) and no error or meta field; Error(status, msg, args...)
\* writes status with success=false, error={code: status, message: msg
\* formatted with args by fmt.Sprintf} and no data or meta field, the message
\* being msg itself when msg holds no % directive and no args are passed, and
\* the argument itself for msg "%v" with one argument, whatever that argument
\* holds; WithMeta(data, meta) writes success=true with data and meta (each
\* absent when nil) and no error field.  Data and meta are values that have a
\* JSON form, as in the claim.
C15_EnvelopeFormatted ==
  \A e \in Emissions :
    LET c == e.call
        b == e.body
    IN CASE c[1] = "Success" ->
              c[2] # "chan" =>
                /\ e.status = StatusOK
                /\ Holds(b, "success", TRUE)
                /\ HoldsUnlessNil(b, "data", c[2])
                /\ DOMAIN b \subseteq {"success", "data"}
         [] c[1] = "Error" ->
              /\ e.status = c[2]
              /\ Holds(b, "success", FALSE)
              /\ "error" \in DOMAIN b
              /\ b["error"].code = c[2]
              /\ b["error"].message = Sprintf(c[3], c[4])
              /\ (NoDirective(c[3]) /\ c[4] = <<>>) => b["error"].message = c[3]
              /\ (c[3] = <<"%", "v">> /\ Len(c[4]) = 1) => b["error"].message = c[4][1]
              /\ DOMAIN b = {"success", "error"}
         [] c[1] = "WithMeta" ->
              c[2] # "chan" =>
                /\ Holds(b, "success", TRUE)
                /\ HoldsUnlessNil(b, "data", c[2])
                /\ HoldsUnlessNil(b, "meta", c[3])
                /\ DOMAIN b \subseteq {"success", "data", "meta"}
         [] OTHER -> TRUE

\* C15 witness: a handler called Error with the format "%v" and the argument
\* "%v" and returned; the 500 went out with success=false and the error
\* object, nothing else, its message the argument (which here reads the same
\* as the format).
C15_Witness ==
  \E q \in Requests :
    /\ q.returned
    /\ Len(q.sent) = 1
    /\ q.sent[1].call = <<"Error", StatusInternalServerError, <<"%", "v">>, << <<"%", "v">> >> >>
    /\ q.sent[1].status = StatusInternalServerError
    /\ q.sent[1].body = [success |-> FALSE,
                          error |-> [code |-> StatusInternalServerError,
                                     message |-> <<"%", "v">>]]

====
